---- MODULE Spec2Model ----
(***************************************************************************)
(* Model of the y-webtransport client: the ConnectionManager (transport    *)
(* lifecycle, reconnect policy) and the WebTransportProvider (status,      *)
(* sync handshake, document update forwarding) running on one cooperative  *)
(* task runner.  Every action is one synchronous run of a handler or of    *)
(* an async continuation between two awaits.                               *)
(***************************************************************************)
EXTENDS Integers, Sequences, FiniteSets, TLC

\* ---------------------------------------------------------------- bounds
MaxTransports == 3      \* transports (= connect() calls) ever created
MaxConnects   == 2      \* the same, where every interleaving is explored
MaxAttempts   == 1      \* largest configured maxReconnectAttempts
MaxTimers     == 2      \* reconnect timers ever armed
MaxUpdates    == 2      \* local document updates ever produced
MaxClock      == 2      \* largest datagram clock, sent or received
MaxFrames     == 2      \* frames in a stream given to the decoder
MaxEdge       == 5      \* a long stream is split this close to an end
MaxAge        == 1      \* largest threshold given to the stale eviction
MaxTime       == 2      \* time units that pass while the program runs
MaxInbox      == 2      \* messages the relay holds for one provider

\* ------------------------------------------------------ program constants
CLIENT_CLOSE_CODE == 1000
MAX_FRAME         == 65535      \* largest payload frameMessage accepts
USE_DATAGRAMS     == TRUE       \* options.useDatagrams ?? true
STREAM_SYNC       == 1          \* Protocol.STREAM_SYNC, the stream marker
MSG_UPDATE        == 2          \* Protocol.MSG_UPDATE, the update frame tag
MSG_SYNC_STEP1    == 0          \* Protocol.MSG_SYNC_STEP1
MSG_SYNC_STEP2    == 1          \* Protocol.MSG_SYNC_STEP2
\* the message types y-protocols writes in front of its own payloads
messageYjsSyncStep1 == 0
messageYjsSyncStep2 == 1

\* ------------------------------------------------------------- inputs
ServerCloseCodes == {1001}      \* codes the server closes a session with
RemoteUpdates    == {100}       \* updates that exist only on the peer

Transports == 1..MaxTransports
\* awareness client ids: this client's and two peers'
LocalClient   == "me"
RemoteClients == {"a", "b"}
Presence      == {"p", "q"}     \* presence values a client can publish
\* A datagram as received: shorter than the 8-byte header, or a header with
\* a payload that decodes to a presence value or does not decode at all.
ShortDatagram == [short |-> TRUE, clientId |-> LocalClient, clock |-> 0,
                  ok |-> FALSE, state |-> "p"]
Datagram(c, k, ok, v) ==
  [short |-> FALSE, clientId |-> c, clock |-> k, ok |-> ok, state |-> v]
Datagrams ==
  {ShortDatagram}
    \cup {Datagram(c, k, TRUE, v) :
            c \in RemoteClients \cup {LocalClient}, k \in 1..MaxClock,
            v \in Presence}
    \cup {Datagram(c, k, FALSE, "p") : c \in RemoteClients, k \in 1..MaxClock}
\* The local awareness state: absent, or the application's own presence
\* together with the _remote field.
NoState == [present |-> FALSE, user |-> "none", remote |-> << >>]
LocalState(u, r) == [present |-> TRUE, user |-> u, remote |-> r]
\* byte arrays the application hands to the send primitives: empty, short,
\* and one byte longer than the largest frame
Oversize == [i \in 1..(MAX_FRAME + 1) |-> 0]
SendData == {<< >>, <<1, 2>>, Oversize}
InTags     == {"step1", "step2", "update"}
\* a mirror entry set to null
NullEntry == [state |-> "null", clock |-> 0, timestamp |-> 0]
\* thresholds the application gives to the stale eviction
StaleAges == 0..MaxAge
InPayloads == {{}, RemoteUpdates}

VARIABLES
  \* ConnectionManager fields
  transport, syncStream, syncWriter, syncReader,
  reconnectAttempts, maxReconnectAttempts, reconnectTimeout, destroyed,
  \* host timers and transports
  timers, nextTimer, nextTransport, ready, closedFut, closeCode,
  \* suspended connect() calls and the tasks they started
  pc, streamT, pendRead, closedH,
  \* WebTransportProvider fields and the document
  p_connected, p_synced, p_destroyed, doc, nextUpdate,
  \* the handlers subscribed to the document's update event, each named
  \* after the bind() call that made the function object
  docObservers,
  \* the Awareness object, the AwarenessManager objects ever constructed
  \* and the provider's reference to the current one (0 = null)
  awareness, managers, awarenessManager,
  \* Date.now()
  now,
  \* observation: last reported status, last action, what it called/emitted
  status, act, trace,
  \* history
  hist,
  \* the framing codec at work on a stream of frames
  codec,
  \* two providers in one room and the relay between them
  relay

progVars == <<transport, syncStream, syncWriter, syncReader, reconnectAttempts,
          maxReconnectAttempts, reconnectTimeout, destroyed, timers,
          nextTimer, nextTransport, ready, closedFut, closeCode, pc, streamT,
          pendRead, closedH, p_connected, p_synced, p_destroyed, doc,
          nextUpdate, docObservers, awareness, managers,
          awarenessManager, now, status, act, trace, hist>>

vars == <<progVars, codec, relay>>

\* The whole program state as one record, so that handlers compose.
Cur ==
  [transport |-> transport, syncStream |-> syncStream,
   syncWriter |-> syncWriter, syncReader |-> syncReader,
   reconnectAttempts |-> reconnectAttempts,
   maxReconnectAttempts |-> maxReconnectAttempts,
   reconnectTimeout |-> reconnectTimeout, destroyed |-> destroyed,
   timers |-> timers, nextTimer |-> nextTimer,
   nextTransport |-> nextTransport, ready |-> ready,
   closedFut |-> closedFut, closeCode |-> closeCode, pc |-> pc,
   streamT |-> streamT, pendRead |-> pendRead, closedH |-> closedH,
   p_connected |-> p_connected, p_synced |-> p_synced,
   p_destroyed |-> p_destroyed, doc |-> doc, nextUpdate |-> nextUpdate,
   docObservers |-> docObservers,
   awareness |-> awareness, managers |-> managers,
   awarenessManager |-> awarenessManager, now |-> now,
   status |-> status, trace |-> << >>]

\* One observable event of a step: a callback, an emitted event, a write.
Ev(k, a, n, p) == [k |-> k, a |-> a, n |-> n, p |-> p]

Log(s, e) == [s EXCEPT !.trace = Append(@, e)]

\* ----------------------------------------------------------- framing codec
\* A byte array is a sequence of numbers in 0..255.  A function that can
\* throw returns [ok |-> FALSE, err |-> name] instead of its value.
frameMessage_littleEndian(data) ==
  LET length == Len(data)
  IN IF length > MAX_FRAME
       THEN [ok |-> FALSE, err |-> "FrameTooLarge"]
       ELSE [ok |-> TRUE,
             bytes |-> <<length % 256, (length \div 256) % 256>> \o data]

frameMessage(data) ==
  LET length == Len(data)
  IN IF length > MAX_FRAME
       THEN [ok |-> FALSE, err |-> "FrameTooLarge"]
       ELSE [ok |-> TRUE,
             bytes |-> <<(length \div 256) % 256, length % 256>> \o data]

\* The loop of readFramedMessages from a given offset (0-based, as in the
\* code) with the messages found so far.
RECURSIVE readFramedLoop(_, _, _)
readFramedLoop(buffer, offset, messages) ==
  IF offset + 2 <= Len(buffer)
    THEN LET length == buffer[offset + 1] * 256 + buffer[offset + 2]
         IN IF offset + 2 + length > Len(buffer)
              THEN <<messages, SubSeq(buffer, offset + 1, Len(buffer))>>
              ELSE readFramedLoop(buffer, offset + 2 + length,
                     Append(messages,
                            SubSeq(buffer, offset + 3, offset + 2 + length)))
    ELSE <<messages, SubSeq(buffer, offset + 1, Len(buffer))>>

readFramedMessages_dropsPartialHeader(buffer) ==
  LET r == readFramedLoop(buffer, 0, << >>)
  IN <<r[1], IF Len(r[2]) < 2 THEN << >> ELSE r[2]>>

readFramedMessages(buffer) == readFramedLoop(buffer, 0, << >>)

\* a ++ b ++ ... for a sequence of byte arrays
RECURSIVE Concat(_)
Concat(arrays) ==
  IF arrays = << >> THEN << >> ELSE Head(arrays) \o Concat(Tail(arrays))

\* One round of the read loop of readSyncStream on its reassembly buffer:
\* every complete frame at the front is handed to the callback and removed.
RECURSIVE deliverFrames(_, _)
deliverFrames(buffer, delivered) ==
  IF Len(buffer) >= 2
    THEN LET msgLen == buffer[1] * 256 + buffer[2]
         IN IF Len(buffer) < 2 + msgLen
              THEN <<delivered, buffer>>
              ELSE deliverFrames(SubSeq(buffer, 3 + msgLen, Len(buffer)),
                                 Append(delivered,
                                        SubSeq(buffer, 3, 2 + msgLen)))
    ELSE <<delivered, buffer>>

readSyncStreamChunk_forgetsBuffer(buffer, value) ==
  deliverFrames(value, << >>)

\* readSyncStream for one chunk read from the stream: append it to the
\* buffer, then deliver.  Gives the bodies delivered and the buffer kept.
readSyncStreamChunk(buffer, value) ==
  deliverFrames(buffer \o value, << >>)

\* lib0 writeVarUint: seven bits a byte, low group first, the high bit set
\* on every byte but the last.
RECURSIVE writeVarUint(_)
writeVarUint(num) ==
  IF num > 127 THEN <<128 + (num % 128)>> \o writeVarUint(num \div 128)
               ELSE <<num>>

\* lib0 writeVarUint8Array: the length as a varuint, then the bytes.
writeVarUint8Array(bytes) == writeVarUint(Len(bytes)) \o bytes

\* The message handleDocUpdate hands to sendSyncMessage for an update.
updateMessage(update) ==
  writeVarUint(MSG_UPDATE) \o writeVarUint8Array(update)

\* handleSyncMessage on a message: what handleRemoteUpdate applies to the
\* document, if the message is dispatched to it.
remoteUpdate(data) ==
  IF Len(data) > 0 /\ data[1] = MSG_UPDATE
    THEN [applies |-> TRUE, bytes |-> SubSeq(data, 2, Len(data))]
    ELSE [applies |-> FALSE, bytes |-> << >>]

\* lib0 readVarUint: fails at the end of the array.
RECURSIVE readVarUint(_)
readVarUint(bytes) ==
  IF bytes = << >> THEN [ok |-> FALSE, value |-> 0, rest |-> << >>]
  ELSE IF Head(bytes) < 128
    THEN [ok |-> TRUE, value |-> Head(bytes), rest |-> Tail(bytes)]
  ELSE LET r == readVarUint(Tail(bytes))
       IN [r EXCEPT !.value = (Head(bytes) % 128) + 128 * @]

\* lib0 readVarUint8Array: a varuint length, then that many bytes.
readVarUint8Array(bytes) ==
  LET n == readVarUint(bytes)
  IN IF ~n.ok \/ Len(n.rest) < n.value
       THEN [ok |-> FALSE, value |-> << >>, rest |-> << >>]
       ELSE [ok |-> TRUE, value |-> SubSeq(n.rest, 1, n.value),
             rest |-> SubSeq(n.rest, n.value + 1, Len(n.rest))]

\* The items of a document in ascending order.
RECURSIVE Ascending(_)
Ascending(S) ==
  IF S = {} THEN << >>
  ELSE LET x == CHOOSE x \in S : \A y \in S : x <= y
       IN <<x>> \o Ascending(S \ {x})

\* Yjs state vectors and updates, reduced to what the handshake needs: the
\* number of entries as a varuint, then one byte an entry.
encodeStateVector(items) ==
  writeVarUint(Cardinality(items)) \o Ascending(items)

decodeStateVector(bytes) ==
  LET n == readVarUint(bytes)
  IN IF ~n.ok \/ Len(n.rest) < n.value THEN [ok |-> FALSE, value |-> {}]
     ELSE [ok |-> TRUE, value |-> {n.rest[i] : i \in 1..n.value}]

\* Y.encodeStateAsUpdate: decodes the target state vector first, which
\* throws on bytes that are no state vector.
encodeStateAsUpdate(items, sv) ==
  LET target == decodeStateVector(sv)
  IN IF ~target.ok THEN [ok |-> FALSE, bytes |-> << >>]
     ELSE [ok |-> TRUE, bytes |-> encodeStateVector(items \ target.value)]

\* startSync and handleSyncStep1: the provider's tag, then what
\* writeSyncStep1 writes (its own message type, the length-prefixed state
\* vector).
syncStep1Message(items) ==
  writeVarUint(MSG_SYNC_STEP1) \o writeVarUint(messageYjsSyncStep1)
    \o writeVarUint8Array(encodeStateVector(items))

\* handleSyncStep1: the provider's tag, then what readSyncStep1 writes
\* (its own message type, the length-prefixed update).
syncStep2Message(update) ==
  writeVarUint(MSG_SYNC_STEP2) \o writeVarUint(messageYjsSyncStep2)
    \o writeVarUint8Array(update)

\* A provider as the relay scenario sees it.
NewPeer(items) ==
  [up |-> FALSE, synced |-> FALSE, doc |-> items]

\* What handling a message does to a provider: it throws, or it sends
\* replies and changes the provider.
PeerResult(throws, replies, peer) ==
  [throws |-> throws, replies |-> replies, peer |-> peer]

\* handleSyncStep1 on the bytes after the tag: readSyncStep1 reads a
\* length-prefixed state vector and encodes the diff; the response always
\* has more than one byte.
peerSyncStep1(peer, data) ==
  LET sv     == readVarUint8Array(data)
      update == encodeStateAsUpdate(peer.doc, sv.value)
  IN IF ~sv.ok \/ ~update.ok THEN PeerResult(TRUE, << >>, peer)
     ELSE PeerResult(FALSE,
            <<syncStep2Message(update.bytes)>>
              \o (IF ~peer.synced THEN <<syncStep1Message(peer.doc)>>
                                  ELSE << >>),
            peer)

\* handleSyncStep2 on the bytes after the tag: readSyncStep2 applies the
\* length-prefixed update, logging a failure instead of throwing; then
\* the provider is synced.
peerSyncStep2(peer, data) ==
  LET bytes   == readVarUint8Array(data)
      applied == decodeStateVector(bytes.value)
  IN PeerResult(FALSE, << >>,
       [peer EXCEPT !.synced = TRUE,
                    !.doc = IF bytes.ok /\ applied.ok
                              THEN @ \cup applied.value ELSE @])

\* handleRemoteUpdate on the bytes after the tag: Y.applyUpdate throws on
\* bytes that are no update.
peerRemoteUpdate(peer, data) ==
  LET applied == decodeStateVector(data)
  IN IF ~applied.ok THEN PeerResult(TRUE, << >>, peer)
     ELSE PeerResult(FALSE, << >>,
                     [peer EXCEPT !.doc = @ \cup applied.value])

\* handleSyncMessage at the byte level.
peerSyncMessage(peer, data) ==
  IF Len(data) = 0 THEN PeerResult(FALSE, << >>, peer)
  ELSE CASE data[1] = MSG_SYNC_STEP1 -> peerSyncStep1(peer, Tail(data))
         [] data[1] = MSG_SYNC_STEP2 -> peerSyncStep2(peer, Tail(data))
         [] data[1] = MSG_UPDATE     -> peerRemoteUpdate(peer, Tail(data))
         [] OTHER                    -> PeerResult(FALSE, << >>, peer)

Peers == {"A", "B"}

OtherPeer(p) == CHOOSE q \in Peers : q # p

\* documents a linked provider starts with
PeerDocs == SUBSET {7, 8}

RelayIdle ==
  [peer  |-> [p \in Peers |-> NewPeer({})],
   inbox |-> [p \in Peers |-> << >>]]

\* The relay forwards the messages of p, in order, to the other provider
\* if that one has a session.
Forward(r, p, messages) ==
  IF r.peer[OtherPeer(p)].up
    THEN [r EXCEPT !.inbox[OtherPeer(p)] = @ \o messages]
    ELSE r

\* The codec harness: payloads to frame, the framed stream, where the
\* stream is split, and what the decoder returned for each part; how far
\* the stream reader has read, its buffer and what it delivered; the
\* message sent for an update and what the receiver applied.
CodecIdle ==
  [stage |-> "idle", payloads |-> << >>, stream |-> << >>, cut |-> 0,
   first |-> << << >>, << >> >>, second |-> << << >>, << >> >>,
   pos |-> 0, buffer |-> << >>, delivered |-> << >>,
   message |-> << >>, applied |-> [applies |-> FALSE, bytes |-> << >>]]

Fill(n) == [i \in 1..n |-> 7]

SmallPayloads == {<< >>, <<0>>, <<1, 2>>}
BigPayloads   == {Fill(256), Fill(MAX_FRAME), Oversize}

SmallStreams ==
  UNION {[1..n -> SmallPayloads] : n \in 1..MaxFrames}

CodecInputs ==
  SmallStreams
    \cup {<<p>> : p \in BigPayloads}
    \cup {<<<<1, 2>>, p>> : p \in BigPayloads}
    \cup {<<p, <<1, 2>>>> : p \in BigPayloads}

Cuts(n) == {k \in 0..n : k <= MaxEdge \/ k >= n - MaxEdge}

\* ------------------------------------------------ ConnectionManager: send
sendSyncMessage(s, tag, payload) ==
  IF s.syncWriter = 0
    THEN Log(s, Ev("drop", tag, 0, payload))
    ELSE Log(s, Ev("write", tag, s.syncWriter, payload))

\* sendSyncMessage seen at the byte level, for a caller-supplied byte array:
\* the two header bytes are the low 16 bits of the length, whatever it is.
sendSyncMessageBytes(s, data) ==
  IF s.syncWriter = 0
    THEN Log(s, Ev("drop", "bytes", 0, data))
    ELSE LET framed == <<(Len(data) \div 256) % 256, Len(data) % 256>>
                         \o data
         IN Log(s, Ev("write", "bytes", s.syncWriter, framed))

\* sendDatagram: nothing without a transport; a failed write is swallowed.
sendDatagram(s, data) ==
  IF s.transport = 0 THEN s
  ELSE Log(s, Ev("datagram", "", s.transport, data))

\* ---------------------------------------------------------------- Provider
handleDocUpdate_echo(s, update, origin) ==
  IF ~s.p_connected THEN s
  ELSE sendSyncMessage(s, "update", update)

handleDocUpdate_offline(s, update, origin) ==
  IF origin = "provider" THEN s
  ELSE sendSyncMessage(s, "update", update)

handleDocUpdate(s, update, origin) ==
  IF origin = "provider" THEN s
  ELSE IF ~s.p_connected THEN s
  ELSE sendSyncMessage(s, "update", update)

\* doc.on('update', f) and doc.off('update', f): f is the function object
\* a bind() call returned, and off removes only that very object.
docOn(observers, f) == observers \cup {f}

docOff(observers, f) == observers \ {f}

\* Y.applyUpdate(doc, update, origin): the document grows and, when it
\* changed, its update event reaches the handlers subscribed to it, which
\* are all bound versions of the provider's handleDocUpdate.
applyUpdate(s, update, origin) ==
  LET fresh == update \ s.doc
      s1 == [s EXCEPT !.doc = @ \cup update]
  IN IF fresh = {} \/ s.docObservers = {} THEN s1
     ELSE handleDocUpdate(Log(s1, Ev("docUpdate", origin, 0, fresh)),
                          fresh, origin)

\* ------------------------------------------------------- AwarenessManager
\* A manager object as its constructor leaves it; the listener it puts on
\* the awareness object is never taken off by the manager.
NewManager ==
  [localClock |-> 0, remoteClocks |-> << >>, intervalId |-> FALSE,
   listening |-> TRUE]

ManagerIds(s) == 1..Len(s.managers)

broadcastLocalStateDatagram(s, m) ==
  IF ~s.awareness.localState.present THEN s
  ELSE LET s1 == [s EXCEPT !.managers[m].localClock = @ + 1]
       IN sendDatagram(s1, [short |-> FALSE, clientId |-> LocalClient,
                            clock |-> s1.managers[m].localClock,
                            ok |-> TRUE,
                            state |-> s1.awareness.localState])

broadcastStateStream(s) == sendSyncMessage(s, "awareness", {})

\* The listener of manager m on the awareness 'update' event, for a change
\* of the given clients.
localAwarenessListener(s, m, changedClients) ==
  IF LocalClient \in changedClients
    THEN IF USE_DATAGRAMS THEN broadcastLocalStateDatagram(s, m)
         ELSE broadcastStateStream(s)
    ELSE s

\* The awareness object tells its listeners, in the order they were added.
RECURSIVE emitUpdate(_, _, _)
emitUpdate(s, m, changedClients) ==
  IF m > Len(s.managers) THEN s
  ELSE emitUpdate(IF s.managers[m].listening
                    THEN localAwarenessListener(s, m, changedClients)
                    ELSE s,
                  m + 1, changedClients)

\* Awareness.setLocalState: the local entry is replaced (or removed), a
\* 'change' event of origin local is emitted when it differs, and an
\* 'update' event for the local client always.
setLocalState(s, st) ==
  LET s1 == [s EXCEPT !.awareness.localState = st]
      s2 == IF st # s.awareness.localState
              THEN Log(s1, Ev("change", "local", 0, {LocalClient}))
              ELSE s1
  IN emitUpdate(s2, 1, {LocalClient})

\* Awareness.setLocalStateField: nothing when the local state is absent.
setLocalStateField_remote(s, value) ==
  IF ~s.awareness.localState.present THEN s
  ELSE setLocalState(s, [s.awareness.localState EXCEPT !.remote = value])

startDatagramBroadcast(s, m) == [s EXCEPT !.managers[m].intervalId = TRUE]

stop(s, m) == [s EXCEPT !.managers[m].intervalId = FALSE]

broadcastFullState(s) ==
  IF s.awareness.localState.present THEN broadcastStateStream(s) ELSE s

start(s, m) ==
  broadcastFullState(IF USE_DATAGRAMS THEN startDatagramBroadcast(s, m)
                     ELSE s)

lastClock(s, m, clientId) ==
  IF clientId \in DOMAIN s.managers[m].remoteClocks
    THEN s.managers[m].remoteClocks[clientId] ELSE 0

setRemoteClock(rc, clientId, clock) ==
  [c \in DOMAIN rc \cup {clientId} |-> IF c = clientId THEN clock ELSE rc[c]]

handleDatagram_acceptEqual(s, m, data) ==
  IF data.short THEN s
  ELSE IF data.clientId = LocalClient THEN s
  ELSE IF data.clock < lastClock(s, m, data.clientId) THEN s
  ELSE LET s1 == [s EXCEPT !.managers[m].remoteClocks =
                             setRemoteClock(@, data.clientId, data.clock)]
       IN IF ~data.ok THEN s1
          ELSE Log(setLocalStateField_remote(s1,
                     data.clientId :> [state |-> data.state,
                                       clock |-> data.clock,
                                       timestamp |-> s.now]),
                   Ev("change", "remote-datagram", 0, {data.clientId}))

handleDatagram_noSelfCheck(s, m, data) ==
  IF data.short THEN s
  ELSE IF data.clock <= lastClock(s, m, data.clientId) THEN s
  ELSE LET s1 == [s EXCEPT !.managers[m].remoteClocks =
                             setRemoteClock(@, data.clientId, data.clock)]
       IN IF ~data.ok THEN s1
          ELSE Log(setLocalStateField_remote(s1,
                     data.clientId :> [state |-> data.state,
                                       clock |-> data.clock,
                                       timestamp |-> s.now]),
                   Ev("change", "remote-datagram", 0, {data.clientId}))

\* decodeAwarenessDatagram throws on a short datagram and decodeState on a
\* payload that is not a state; the catch swallows both, the second one
\* after the clock was recorded.
handleDatagram(s, m, data) ==
  IF data.short THEN s
  ELSE IF data.clientId = LocalClient THEN s
  ELSE IF data.clock <= lastClock(s, m, data.clientId) THEN s
  ELSE LET s1 == [s EXCEPT !.managers[m].remoteClocks =
                             setRemoteClock(@, data.clientId, data.clock)]
       IN IF ~data.ok THEN s1
          ELSE Log(setLocalStateField_remote(s1,
                     data.clientId :> [state |-> data.state,
                                       clock |-> data.clock,
                                       timestamp |-> s.now]),
                   Ev("change", "remote-datagram", 0, {data.clientId}))

\* applyAwarenessUpdate for an update that carries the states of the given
\* remote clients: new ones join the states map, in order; the change
\* event names no local client, so the listeners send nothing.
RECURSIVE applyAwarenessUpdate(_, _)
applyAwarenessUpdate(s, clients) ==
  IF clients = << >> THEN s
  ELSE LET c  == Head(clients)
           known == \E i \in 1..Len(s.awareness.states) :
                      s.awareness.states[i] = c
           s1 == IF known THEN s
                 ELSE [s EXCEPT !.awareness.states = Append(@, c)]
       IN applyAwarenessUpdate(
            Log(s1, Ev("change", "remote-stream", 0, {c})), Tail(clients))

handleStreamMessage(s, clients) == applyAwarenessUpdate(s, clients)

\* The states map holds the clients known from the stream; their states
\* are what the peers published and carry no _timestamp, so lastUpdate is
\* 0 for each of them.  Clients known from datagrams only are not in it.
RECURSIVE cleanupStaleLoop(_, _, _, _, _)
cleanupStaleLoop(s, m, maxAge, nowRead, i) ==
  IF i > Len(s.awareness.states) THEN s
  ELSE LET clientId   == s.awareness.states[i]
           lastUpdate == 0
           s1 == IF nowRead - lastUpdate > maxAge
                   THEN LET s0 == setLocalStateField_remote(
                                    s, clientId :> NullEntry)
                        IN [s0 EXCEPT !.managers[m].remoteClocks =
                              [c \in DOMAIN @ \ {clientId} |-> @[c]]]
                   ELSE s
       IN cleanupStaleLoop(s1, m, maxAge, nowRead, i + 1)

cleanupStaleStates(s, m, maxAge) == cleanupStaleLoop(s, m, maxAge, s.now, 1)

managerDestroy(s, m) == [stop(s, m) EXCEPT !.managers[m].remoteClocks = << >>]

\* Awareness.destroy(): the local state is removed, then every listener.
awarenessDestroy(s) ==
  LET s1 == setLocalState(s, NoState)
  IN [s1 EXCEPT !.managers =
        [m \in DOMAIN s1.managers |->
           [s1.managers[m] EXCEPT !.listening = FALSE]]]

\* ---------------------------------------------------------------- Provider
startSync(s) ==
  LET m  == Len(s.managers) + 1
      s0 == [s EXCEPT !.managers = Append(@, NewManager),
                      !.awarenessManager = m]
      s1 == sendSyncMessage(s0, "step1", s0.doc)
  IN start(s1, m)

providerHandleDatagram(s, data) ==
  IF s.awarenessManager = 0 THEN s
  ELSE handleDatagram(s, s.awarenessManager, data)

handleStatusChange(s, st) ==
  LET s0 == Log([s EXCEPT !.status = st], Ev("onStatusChange", st, 0, {}))
      wasConnected == s.p_connected
      s1 == [s0 EXCEPT !.p_connected = (st = "connected")]
      s2 == IF st = "connected" /\ ~wasConnected THEN startSync(s1)
            ELSE IF st = "disconnected" /\ wasConnected
              THEN Log([s1 EXCEPT !.p_synced = FALSE],
                       Ev("emit", "synced", 0, {}))
            ELSE s1
  IN Log(s2, Ev("emit", "status", 0, {}))

handleSyncStep1_alwaysReplies(s, sv) ==
  sendSyncMessage(sendSyncMessage(s, "step2", s.doc \ sv), "step1", s.doc)

handleSyncStep1(s, sv) ==
  LET diff == s.doc \ sv
      \* response = tag byte, then what readSyncStep1 wrote
      responseLength == 1 + 1 + 1 + Cardinality(diff)
      s1 == IF responseLength > 1 THEN sendSyncMessage(s, "step2", diff)
            ELSE s
  IN IF ~s1.p_synced THEN sendSyncMessage(s1, "step1", s1.doc) ELSE s1

handleSyncStep2(s, update) ==
  LET s1 == applyUpdate(s, update, "provider")
  IN IF ~s1.p_synced
       THEN Log(Log([s1 EXCEPT !.p_synced = TRUE],
                    Ev("emit", "synced", 1, {})),
                Ev("emit", "sync", 1, {}))
       ELSE s1

handleRemoteUpdate(s, update) == applyUpdate(s, update, "provider")

handleSyncMessage(s, tag, payload) ==
  LET s0 == Log(s, Ev("onSyncMessage", tag, 0, payload))
  IN CASE tag = "step1"  -> handleSyncStep1(s0, payload)
       [] tag = "step2"  -> handleSyncStep2(s0, payload)
       [] tag = "update" -> handleRemoteUpdate(s0, payload)
       [] tag = "awareness" ->
            IF s0.awarenessManager = 0 THEN s0
            ELSE handleStreamMessage(s0, payload)
       [] OTHER          -> s0

providerHandleError(s) == Log(s, Ev("emit", "connection-error", 0, {}))

providerHandleClose(s, code) == Log(s, Ev("emit", "connection-close", code, {}))

\* ------------------------------------------- ConnectionManager: lifecycle
cleanup(s) ==
  [s EXCEPT !.syncWriter = 0, !.syncReader = 0, !.syncStream = 0,
            !.transport = 0]

scheduleReconnect_offByOne(s) ==
  IF s.reconnectAttempts > s.maxReconnectAttempts
    THEN Log(s, Ev("giveUp", "", 0, {}))
    ELSE LET s1 == handleStatusChange(s, "reconnecting")
             id == s1.nextTimer
         IN Log([s1 EXCEPT !.reconnectAttempts = @ + 1,
                           !.reconnectTimeout = id,
                           !.timers = @ \cup {id},
                           !.nextTimer = @ + 1],
                Ev("setTimeout", "", id, {}))

scheduleReconnect(s) ==
  IF s.reconnectAttempts >= s.maxReconnectAttempts
    THEN Log(s, Ev("giveUp", "", 0, {}))
    ELSE LET s1 == handleStatusChange(s, "reconnecting")
             id == s1.nextTimer
         IN Log([s1 EXCEPT !.reconnectAttempts = @ + 1,
                           !.reconnectTimeout = id,
                           !.timers = @ \cup {id},
                           !.nextTimer = @ + 1],
                Ev("setTimeout", "", id, {}))

handleError_noCleanup(s) ==
  LET s2 == providerHandleError(Log(s, Ev("onError", "", 0, {})))
  IN IF ~s2.destroyed THEN scheduleReconnect(s2) ELSE s2

handleError(s) ==
  LET s1 == cleanup(s)
      s2 == providerHandleError(Log(s1, Ev("onError", "", 0, {})))
  IN IF ~s2.destroyed THEN scheduleReconnect(s2) ELSE s2

handleClose(s, code) ==
  LET s1 == cleanup(s)
      s2 == providerHandleClose(Log(s1, Ev("onClose", "", code, {})), code)
      s3 == handleStatusChange(s2, "disconnected")
  IN IF ~s3.destroyed THEN scheduleReconnect(s3) ELSE s3

\* transport.close(): a transport still connecting fails its ready and
\* closed futures; an established one resolves closed with the given code.
transportClose(s, t) ==
  IF s.ready[t] = "pending"
    THEN [s EXCEPT !.ready[t] = "failed", !.closedFut[t] = "rejected"]
  ELSE IF s.closedFut[t] = "pending"
    THEN [s EXCEPT !.closedFut[t] = "resolved",
                   !.closeCode[t] = CLIENT_CLOSE_CODE]
  ELSE s

\* connect() up to its first await (the transport's ready future).
connect(s) ==
  IF s.destroyed THEN Log(s, Ev("throw", "Destroyed", 0, {}))
  ELSE LET s1 == handleStatusChange(s, "connecting")
           t  == s1.nextTransport
       IN Log([s1 EXCEPT !.transport = t, !.nextTransport = @ + 1,
                         !.ready[t] = "pending", !.pc[t] = "ready"],
              Ev("open", "", t, {}))

disconnect(s) ==
  LET s1 == IF s.reconnectTimeout # 0
              THEN [s EXCEPT !.timers = @ \ {s.reconnectTimeout},
                             !.reconnectTimeout = 0]
              ELSE s
      s2 == IF s1.transport # 0 THEN transportClose(s1, s1.transport) ELSE s1
  IN handleStatusChange(cleanup(s2), "disconnected")

destroy(s) == disconnect([s EXCEPT !.destroyed = TRUE])

\* --------------------------------------------------------- Provider: API
providerConnect(s) ==
  IF s.p_destroyed THEN Log(s, Ev("throw", "Destroyed", 0, {}))
  ELSE connect(s)

providerDisconnect(s) ==
  LET s1 == disconnect(s)
  IN IF s1.awarenessManager = 0 THEN s1 ELSE stop(s1, s1.awarenessManager)

providerDestroy(s) ==
  IF s.p_destroyed THEN s
  ELSE LET s1 == awarenessDestroy([s EXCEPT !.p_destroyed = TRUE])
           s2 == IF s1.awarenessManager = 0 THEN s1
                 ELSE managerDestroy(s1, s1.awarenessManager)
           s3 == destroy(s2)
       IN [s3 EXCEPT !.docObservers = docOff(@, "destroy")]


\* connect(), lines 99-100: openSyncStream up to createBidirectionalStream.
openSyncStream(s, c) ==
  IF s.transport = 0
    THEN [handleError(s) EXCEPT !.pc[c] = "end"]
    ELSE [s EXCEPT !.pc[c] = "stream", !.streamT[c] = s.transport]

takeStream_lateMarker(s, c) ==
  [s EXCEPT !.syncStream = c, !.syncWriter = c, !.syncReader = c,
            !.pc[c] = "marker"]

\* openSyncStream after the stream is created: take writer and reader and
\* issue the write of the stream-type marker, all before the task yields.
\* The writer queues its writes in call order.
takeStream(s, c) ==
  Log([s EXCEPT !.syncStream = c, !.syncWriter = c, !.syncReader = c,
                !.pc[c] = "marker"],
      Ev("write", "marker", c, <<STREAM_SYNC>>))

\* readSyncStream(): the read loop starts on the reader held right now.
readSyncStream(s, c) ==
  IF s.syncReader = 0 THEN s ELSE [s EXCEPT !.pendRead[c] = s.syncReader]

\* connect() after openSyncStream returned: start the readers, install the
\* handler on the close future, reset the counter, report connected.
connectFinish_noReset(s, c) ==
  LET s1 == readSyncStream(s, c)
  IN IF s1.transport = 0
       THEN [handleError(s1) EXCEPT !.pc[c] = "end"]
       ELSE handleStatusChange(
              [s1 EXCEPT !.closedH[c] = s1.transport, !.pc[c] = "end"],
              "connected")

connectFinish(s, c) ==
  LET s1 == readSyncStream(s, c)
  IN IF s1.transport = 0
       THEN [handleError(s1) EXCEPT !.pc[c] = "end"]
       ELSE handleStatusChange(
              [s1 EXCEPT !.closedH[c] = s1.transport,
                         !.reconnectAttempts = 0, !.pc[c] = "end"],
              "connected")

connectFail(s, c) == [handleError(s) EXCEPT !.pc[c] = "end"]

\* readSyncStream(): one chunk carrying one frame is dispatched, then the
\* loop reads again from whatever this.syncReader is now.
readLoopChunk(s, c, tag, payload) ==
  LET s1 == handleSyncMessage(s, tag, payload)
  IN IF s1.syncReader = 0
       THEN LET s2 == [s1 EXCEPT !.pendRead[c] = 0]
            IN IF ~s2.destroyed THEN handleError(s2) ELSE s2
       ELSE [s1 EXCEPT !.pendRead[c] = s1.syncReader]

readLoopError(s, c) ==
  LET s1 == [s EXCEPT !.pendRead[c] = 0]
  IN IF ~s1.destroyed THEN handleError(s1) ELSE s1

closedSettled(s, c) ==
  LET t  == s.closedH[c]
      s1 == [s EXCEPT !.closedH[c] = 0]
  IN IF s.closedFut[t] = "resolved" THEN handleClose(s1, s.closeCode[t])
     ELSE handleError(s1)

timerExpired(s, id) == connect([s EXCEPT !.timers = @ \ {id}])

localEdit(s) ==
  applyUpdate([s EXCEPT !.nextUpdate = @ + 1], {s.nextUpdate}, "local")

\* ------------------------------------------------------------- the steps
Commit(s, a) ==
  /\ s.nextTimer <= MaxTimers + 1
  /\ \A m \in ManagerIds(s) : s.managers[m].localClock <= MaxClock
  /\ transport' = s.transport
  /\ syncStream' = s.syncStream
  /\ syncWriter' = s.syncWriter
  /\ syncReader' = s.syncReader
  /\ reconnectAttempts' = s.reconnectAttempts
  /\ maxReconnectAttempts' = s.maxReconnectAttempts
  /\ reconnectTimeout' = s.reconnectTimeout
  /\ destroyed' = s.destroyed
  /\ timers' = s.timers
  /\ nextTimer' = s.nextTimer
  /\ nextTransport' = s.nextTransport
  /\ ready' = s.ready
  /\ closedFut' = s.closedFut
  /\ closeCode' = s.closeCode
  /\ pc' = s.pc
  /\ streamT' = s.streamT
  /\ pendRead' = s.pendRead
  /\ closedH' = s.closedH
  /\ p_connected' = s.p_connected
  /\ p_synced' = s.p_synced
  /\ p_destroyed' = s.p_destroyed
  /\ doc' = s.doc
  /\ nextUpdate' = s.nextUpdate
  /\ docObservers' = s.docObservers
  /\ awareness' = s.awareness
  /\ managers' = s.managers
  /\ awarenessManager' = s.awarenessManager
  /\ now' = s.now
  /\ status' = s.status
  /\ trace' = s.trace
  /\ act' = a
  /\ codec' = codec
  /\ relay' = relay

ProviderConnect ==
  /\ nextTransport <= MaxTransports
  /\ Commit(providerConnect(Cur), "connect")

ProviderDisconnect == Commit(providerDisconnect(Cur), "disconnect")

ProviderDestroy == Commit(providerDestroy(Cur), "destroy")

LocalUpdate ==
  /\ nextUpdate <= MaxUpdates
  /\ Commit(localEdit(Cur), "localUpdate")

ConnectReadyOk(c) ==
  /\ pc[c] = "ready" /\ ready[c] = "pending"
  /\ Commit(openSyncStream([Cur EXCEPT !.ready[c] = "ok"], c), "readyOk")

ConnectReadyFail(c) ==
  /\ pc[c] = "ready"
  /\ Commit(connectFail([Cur EXCEPT !.ready[c] = "failed",
                                    !.closedFut[c] = "rejected"], c),
            "readyFail")

ConnectStreamOk(c) ==
  /\ pc[c] = "stream" /\ closedFut[streamT[c]] = "pending"
  /\ Commit(takeStream(Cur, c), "streamOk")

ConnectStreamFail(c) ==
  /\ pc[c] = "stream"
  /\ Commit(connectFail(Cur, c), "streamFail")

ConnectMarkerOk(c) ==
  /\ pc[c] = "marker"
  /\ Commit(connectFinish(Cur, c), "markerOk")

ConnectMarkerFail(c) ==
  /\ pc[c] = "marker"
  /\ Commit(connectFail(Cur, c), "markerFail")

ServerClose(t, code) ==
  /\ ready[t] = "ok" /\ closedFut[t] = "pending"
  /\ Commit([Cur EXCEPT !.closedFut[t] = "resolved",
                        !.closeCode[t] = code], "serverClose")

TransportAbort(t) ==
  /\ ready[t] = "ok" /\ closedFut[t] = "pending"
  /\ Commit([Cur EXCEPT !.closedFut[t] = "rejected"], "transportAbort")

ClosedFire(c) ==
  /\ closedH[c] # 0 /\ closedFut[closedH[c]] # "pending"
  /\ Commit(closedSettled(Cur, c), "closedFire")

ReadChunk(c, tag, payload) ==
  /\ pendRead[c] # 0
  /\ Commit(readLoopChunk(Cur, c, tag, payload), "readChunk")

ReadFail(c) ==
  /\ pendRead[c] # 0
  /\ Commit(readLoopError(Cur, c), "readFail")

ReadDone(c) ==
  /\ pendRead[c] # 0
  /\ Commit([Cur EXCEPT !.pendRead[c] = 0], "readDone")

TimerFire(id) ==
  /\ id \in timers
  /\ nextTransport <= MaxTransports
  /\ Commit(timerExpired(Cur, id), "timer")

\* The application calls the manager's send primitives directly.
SendSync(data) ==
  Commit(sendSyncMessageBytes(Log(Cur, Ev("call", "sendSyncMessage",
                                          Len(data), {})), data),
         "sendSync")

SendDatagram(data) ==
  Commit(sendDatagram(Log(Cur, Ev("call", "sendDatagram", Len(data), {})),
                      data),
         "sendDatagram")

\* listenDatagrams(): the datagram reader started by connect() on a
\* transport runs for as long as that transport is open.
DatagramReaders ==
  {t \in Transports :
     closedFut[t] = "pending" /\ \E c \in Transports : closedH[c] = t}

DatagramIn(t, data) ==
  /\ t \in DatagramReaders
  /\ Commit(providerHandleDatagram(Log(Cur, Ev("onDatagram", "", 0, data)),
                                    data),
            "datagram")

\* The periodic task of manager m.
Tick(m) ==
  /\ m \in DOMAIN managers /\ managers[m].intervalId
  /\ Commit(broadcastLocalStateDatagram(Cur, m), "tick")

\* The application publishes its presence, replacing its whole local
\* state, or clears it (st = NoState).
AppSetLocalState(st) ==
  /\ ~p_destroyed
  /\ Commit(setLocalState(Cur, st), "setLocalState")

\* The application runs the stale eviction of the current manager.
CleanupStale(maxAge) ==
  /\ awarenessManager # 0
  /\ Commit(cleanupStaleStates(Log(Cur, Ev("call", "cleanupStaleStates",
                                            maxAge, {})),
                                awarenessManager, maxAge),
            "cleanupStale")

\* Time passes.
TimePasses ==
  /\ now < MaxAge + 1 + MaxTime
  /\ Commit([Cur EXCEPT !.now = @ + 1], "time")

\* The sender frames every payload; one that is too long makes it fail.
CodecEncode ==
  /\ codec.stage = "input"
  /\ LET framed == [i \in 1..Len(codec.payloads) |->
                     frameMessage(codec.payloads[i])]
     IN codec' = IF \A i \in 1..Len(framed) : framed[i].ok
                   THEN [codec EXCEPT
                           !.stage = "framed",
                           !.stream = Concat([i \in 1..Len(framed) |->
                                                framed[i].bytes])]
                   ELSE [codec EXCEPT !.stage = "error"]
  /\ UNCHANGED <<progVars, relay>>

\* The receiver gets the first k bytes and decodes them.
CodecFirst(k) ==
  /\ codec.stage = "framed"
  /\ codec' = [codec EXCEPT
                 !.stage = "first", !.cut = k,
                 !.first = readFramedMessages(SubSeq(codec.stream, 1, k))]
  /\ UNCHANGED <<progVars, relay>>

\* The receiver gets the rest and decodes the kept tail followed by it.
CodecSecond ==
  /\ codec.stage = "first"
  /\ codec' = [codec EXCEPT
                 !.stage = "done",
                 !.second = readFramedMessages(
                              codec.first[2]
                                \o SubSeq(codec.stream, codec.cut + 1,
                                          Len(codec.stream)))]
  /\ UNCHANGED <<progVars, relay>>

\* The stream reader gets the next n bytes of the stream as one chunk.
ReaderChunk(n) ==
  /\ codec.stage \in {"framed", "reading"}
  /\ codec.pos + n <= Len(codec.stream)
  /\ LET value == SubSeq(codec.stream, codec.pos + 1, codec.pos + n)
         r     == readSyncStreamChunk(codec.buffer, value)
     IN codec' = [codec EXCEPT
                    !.stage = "reading", !.pos = @ + n,
                    !.delivered = @ \o r[1], !.buffer = r[2]]
  /\ UNCHANGED <<progVars, relay>>

\* A provider sends one local update.
CodecSendUpdate ==
  /\ codec.stage = "input" /\ Len(codec.payloads) = 1
  /\ codec' = [codec EXCEPT !.stage = "sent",
                            !.message = updateMessage(codec.payloads[1])]
  /\ UNCHANGED <<progVars, relay>>

\* The peer provider gets that message from its stream.
CodecReceiveUpdate ==
  /\ codec.stage = "sent"
  /\ codec' = [codec EXCEPT !.stage = "applied",
                            !.applied = remoteUpdate(codec.message)]
  /\ UNCHANGED <<progVars, relay>>

\* Provider p opens a session (connect(), or its reconnect timer: every
\* session that opened reset reconnectAttempts) and startSync sends its
\* sync-step-1.
RelayConnect(p) ==
  /\ ~relay.peer[p].up
  /\ Len(relay.inbox[OtherPeer(p)]) < MaxInbox
  /\ relay' = Forward([relay EXCEPT !.peer[p].up = TRUE],
                      p, <<syncStep1Message(relay.peer[p].doc)>>)
  /\ UNCHANGED <<progVars, codec>>

\* The read loop of provider p hands the next message to the provider; a
\* throw of the callback lands in the catch of the loop, and handleError
\* gives the session up.
RelayDeliver(p) ==
  /\ relay.peer[p].up /\ relay.inbox[p] # << >>
  /\ LET res == peerSyncMessage(relay.peer[p], Head(relay.inbox[p]))
     IN relay' =
          IF res.throws
            THEN [relay EXCEPT !.peer[p].up = FALSE, !.inbox[p] = << >>]
            ELSE Forward([relay EXCEPT !.peer[p] = res.peer,
                                       !.inbox[p] = Tail(@)],
                         p, res.replies)
  /\ UNCHANGED <<progVars, codec>>

\* ------------------------------------------------------------- history
Has(tr, k) == \E i \in 1..Len(tr) : tr[i].k = k

HasStatus(tr, sts) ==
  \E i \in 1..Len(tr) : tr[i].k = "onStatusChange" /\ tr[i].a \in sts

HasEmit(tr, name, n) ==
  \E i \in 1..Len(tr) : tr[i].k = "emit" /\ tr[i].a = name /\ tr[i].n = n

HasWrite(tr, tag) ==
  \E i \in 1..Len(tr) : tr[i].k = "write" /\ tr[i].a = tag

HistInit ==
  [afterDisconnect |-> FALSE, destroyedReconnecting |-> FALSE,
   lossOwed |-> FALSE, gaveUp |-> FALSE, attemptsBefore |-> 0,
   srvClose |-> "none", srvSeen |-> {}, srvNext |-> 0, srvCode |-> 0,
   docChanged |-> FALSE,
   offline |-> {},
   top |-> [c \in RemoteClients |-> <<0, "none">>], clash |-> FALSE,
   garbled |-> FALSE, stale |-> FALSE, self |-> FALSE, sentMax |-> 0,
   head |-> [c \in Transports |-> "none"],
   lastSeen |-> [c \in RemoteClients |-> 0]]

\* The step is the failure of the read loop that reads the current stream.
CurrentReaderFails ==
  /\ act' = "readFail"
  /\ \E c \in Transports :
       pendRead[c] # 0 /\ pendRead'[c] = 0 /\ pendRead[c] = syncReader

\* The step is the close handler of the current transport.
CurrentCloseFires ==
  /\ act' = "closedFire"
  /\ \E c \in Transports :
       closedH[c] # 0 /\ closedH'[c] = 0 /\ closedH[c] = transport

\* The step is the read loop of the current stream dispatching a frame.
CurrentReaderGets(tag) ==
  /\ act' = "readChunk"
  /\ \E c \in Transports : pendRead[c] # 0 /\ pendRead[c] = syncReader
  /\ \E i \in 1..Len(trace') :
       trace'[i].k = "onSyncMessage" /\ trace'[i].a = tag

\* The step is the server closing the current, connected, synced transport.
ServerClosesSynced ==
  /\ act' = "serverClose" /\ status = "connected" /\ p_synced
  /\ transport # 0
  /\ closedFut[transport] = "pending"
  /\ closedFut'[transport] = "resolved"

\* The step reports 'connected' on a transport opened after the server
\* closed the previous one.
Reopened ==
  /\ HasStatus(trace', {"connected"})
  /\ transport' >= hist.srvNext

\* What the lifecycle properties remember of the past.
HistLifecycle ==
  [hist EXCEPT
   !.afterDisconnect =
     IF act' = "disconnect" /\ ~destroyed THEN TRUE
     ELSE IF act' = "connect" /\ Has(trace', "open") THEN FALSE
     ELSE @,
   !.destroyedReconnecting =
     \/ @
     \/ /\ act' = "destroy" /\ ~p_destroyed /\ status = "reconnecting"
        /\ timers # {}
        /\ \A c \in Transports : pc[c] \in {"idle", "end"},
   !.lossOwed =
     /\ \/ @
        \/ status = "connected" /\ (CurrentReaderFails \/ CurrentCloseFires)
     /\ ~(HasStatus(trace', {"disconnected"}) /\ ~p_synced'),
   !.gaveUp =
     IF Has(trace', "giveUp") THEN TRUE
     ELSE IF act' = "connect" /\ Has(trace', "open") THEN FALSE
     ELSE @,
   !.srvClose =
     IF act' \in {"connect", "disconnect", "destroy"} THEN "none"
     ELSE IF ServerClosesSynced THEN "closed"
     ELSE IF @ = "closed" /\ Reopened THEN "reconnected"
     ELSE IF /\ @ = "reconnected"
             /\ (CurrentReaderGets("step2") \/ Has(trace', "onStatusChange"))
       THEN "none"
     ELSE @,
   !.srvNext = IF ServerClosesSynced THEN nextTransport ELSE @,
   !.srvCode = IF ServerClosesSynced THEN closeCode'[transport] ELSE @,
   !.srvSeen =
     IF act' \in {"connect", "disconnect", "destroy"} \/ ServerClosesSynced
       THEN {}
     ELSE @ \cup
          (IF HasEmit(trace', "connection-close", hist.srvCode)
             THEN {"connection-close"} ELSE {})
          \cup (IF HasEmit(trace', "synced", 0) THEN {"synced"} ELSE {})]

\* What the retry properties remember: the counter before the step.
HistRetry == [hist EXCEPT !.attemptsBefore = reconnectAttempts]

\* What the document properties remember: whether the step changed the
\* document, and the local updates produced while connected was false.
HistSync ==
  [hist EXCEPT
   !.docChanged = (doc' # doc),
   !.offline = IF act' = "localUpdate" /\ ~p_connected
                 THEN @ \cup {nextUpdate} ELSE @]

\* The datagram the step handed to the datagram callback.
Handled(d) ==
  /\ act' = "datagram"
  /\ trace'[1].k = "onDatagram" /\ trace'[1].p = d
  /\ ~d.short

\* What the arrival-order property remembers: for each remote client the
\* <<clock, state>> of the well-formed datagram with the largest clock
\* handled so far, whether two datagrams carried that clock with different
\* states, and whether a payload failed to decode.
HistOrder ==
  [hist EXCEPT
   !.top = IF \E d \in Datagrams :
                /\ Handled(d) /\ d.clientId \in RemoteClients /\ d.ok
                /\ d.clock > hist.top[d.clientId][1]
             THEN LET d == trace'[1].p
                  IN [@ EXCEPT ![d.clientId] = <<d.clock, d.state>>]
             ELSE @,
   !.clash = \/ @
             \/ \E d \in Datagrams :
                  /\ Handled(d) /\ d.clientId \in RemoteClients /\ d.ok
                  /\ d.clock = hist.top[d.clientId][1]
                  /\ d.state # hist.top[d.clientId][2],
   !.garbled = \/ @
               \/ \E d \in Datagrams :
                    Handled(d) /\ d.clientId \in RemoteClients /\ ~d.ok]

\* The step handles a datagram whose clock is not above the recorded one.
HandlesOld ==
  \E d \in Datagrams :
    /\ Handled(d) /\ awarenessManager # 0
    /\ d.clientId \in DOMAIN managers[awarenessManager].remoteClocks
    /\ d.clock <= managers[awarenessManager].remoteClocks[d.clientId]

\* The step handles a datagram that carries the local client id.
HandlesOwn == \E d \in Datagrams : Handled(d) /\ d.clientId = LocalClient

\* What the frame properties remember: the kind of datagram just handled.
HistDatagram == [hist EXCEPT !.stale = HandlesOld, !.self = HandlesOwn]

Max(S) == CHOOSE x \in S : \A y \in S : y <= x

SentClocks(tr) ==
  {tr[i].p.clock : i \in {j \in 1..Len(tr) : tr[j].k = "datagram"}}

\* What the clock property remembers: the largest clock of a datagram sent
\* in an earlier step.
HistAwareness ==
  [hist EXCEPT !.sentMax = Max({@} \cup SentClocks(trace))]

\* ------------------------------------------------------- specifications
InitProgram ==
  /\ transport = 0 /\ syncStream = 0 /\ syncWriter = 0 /\ syncReader = 0
  /\ reconnectAttempts = 0
  /\ maxReconnectAttempts \in 0..MaxAttempts
  /\ reconnectTimeout = 0
  /\ destroyed = FALSE
  /\ timers = {} /\ nextTimer = 1 /\ nextTransport = 1
  /\ ready = [t \in Transports |-> "none"]
  /\ closedFut = [t \in Transports |-> "pending"]
  /\ closeCode = [t \in Transports |-> 0]
  /\ pc = [t \in Transports |-> "idle"]
  /\ streamT = [t \in Transports |-> 0]
  /\ pendRead = [t \in Transports |-> 0]
  /\ closedH = [t \in Transports |-> 0]
  /\ p_connected = FALSE /\ p_synced = FALSE /\ p_destroyed = FALSE
  /\ doc = {} /\ nextUpdate = 1
  /\ docObservers = docOn({}, "constructor")
  /\ awareness = [localState |-> LocalState("none", << >>),
                  states |-> << >>]
  /\ managers = << >> /\ awarenessManager = 0
  /\ now = MaxAge + 1
  /\ status = "none" /\ act = "init" /\ trace = << >>
  /\ hist = HistInit

Init == InitProgram /\ codec = CodecIdle /\ relay = RelayIdle

\* Every entry point at any time, every outcome of every await.
Step ==
  \/ nextTransport <= MaxConnects /\ ProviderConnect
  \/ ProviderDisconnect
  \/ ProviderDestroy
  \/ \E c \in Transports : ConnectReadyOk(c)
  \/ \E c \in Transports : ConnectReadyFail(c)
  \/ \E c \in Transports : ConnectStreamOk(c)
  \/ \E c \in Transports : ConnectStreamFail(c)
  \/ \E c \in Transports : ConnectMarkerOk(c)
  \/ \E c \in Transports : ConnectMarkerFail(c)
  \/ \E t \in Transports, code \in ServerCloseCodes : ServerClose(t, code)
  \/ \E t \in Transports : TransportAbort(t)
  \/ \E c \in Transports : ClosedFire(c)
  \/ \E c \in Transports : ReadChunk(c, "step2", {})
  \/ \E c \in Transports : ReadFail(c)
  \/ \E c \in Transports : ReadDone(c)
  \/ \E id \in 1..MaxTimers : nextTransport <= MaxConnects /\ TimerFire(id)

Next == Step /\ hist' = HistLifecycle

Spec == Init /\ [][Next]_vars

\* One connect() and a transport whose open always fails, while the
\* application keeps editing the document.
FailStep ==
  \/ nextTransport = 1 /\ ProviderConnect
  \/ LocalUpdate
  \/ \E c \in Transports : ConnectReadyOk(c)
  \/ \E c \in Transports : ConnectReadyFail(c)
  \/ \E c \in Transports : ConnectStreamOk(c)
  \/ \E c \in Transports : ConnectStreamFail(c)
  \/ \E c \in Transports : ConnectMarkerFail(c)
  \/ \E id \in 1..MaxTimers : TimerFire(id)

NextFail == FailStep /\ hist' = HistRetry

SpecFail == Init /\ [][NextFail]_vars /\ WF_vars(NextFail)

\* One connect(), after which the manager is left to reconnect by itself.
RetryStep ==
  \/ nextTransport = 1 /\ ProviderConnect
  \/ \E c \in Transports : ConnectReadyOk(c)
  \/ \E c \in Transports : ConnectReadyFail(c)
  \/ \E c \in Transports : ConnectStreamOk(c)
  \/ \E c \in Transports : ConnectStreamFail(c)
  \/ \E c \in Transports : ConnectMarkerOk(c)
  \/ \E c \in Transports : ConnectMarkerFail(c)
  \/ \E t \in Transports, code \in ServerCloseCodes : ServerClose(t, code)
  \/ \E t \in Transports : TransportAbort(t)
  \/ \E c \in Transports : ClosedFire(c)
  \/ \E c \in Transports : ReadFail(c)
  \/ \E c \in Transports : ReadDone(c)
  \/ \E id \in 1..MaxTimers : TimerFire(id)

NextRetry == RetryStep /\ hist' = HistRetry

SpecRetry == Init /\ [][NextRetry]_vars

\* The document side: local edits and remote frames around one session at
\* a time (the caller connects when nothing is pending).
Idle == (\A c \in Transports : pc[c] \in {"idle", "end"}) /\ timers = {}

SyncStep ==
  \/ Idle /\ nextTransport <= MaxConnects /\ ProviderConnect
  \/ ProviderDisconnect
  \/ LocalUpdate
  \/ \E c \in Transports : ConnectReadyOk(c)
  \/ \E c \in Transports : ConnectStreamOk(c)
  \/ \E c \in Transports : ConnectMarkerOk(c)
  \/ \E c \in Transports, tag \in InTags, payload \in InPayloads :
       ReadChunk(c, tag, payload)

NextSync == SyncStep /\ hist' = HistSync

SpecSync == Init /\ [][NextSync]_vars

\* The application drives the entry points of the manager itself, sends
\* included, around sessions that open without failure.
ApiStep ==
  \/ Idle /\ nextTransport <= MaxConnects /\ ProviderConnect
  \/ ProviderDisconnect
  \/ ProviderDestroy
  \/ \E c \in Transports : ConnectReadyOk(c)
  \/ \E c \in Transports : ConnectStreamOk(c)
  \/ \E c \in Transports : ConnectMarkerOk(c)
  \/ \E data \in SendData : SendSync(data)
  \/ \E data \in SendData : SendDatagram(data)
  \/ LocalUpdate

\* The kind of the first write queued on stream c in a step, or "none".
FirstWrite(tr, c) ==
  IF \E i \in 1..Len(tr) : tr[i].k = "write" /\ tr[i].n = c
    THEN LET i == CHOOSE i \in 1..Len(tr) :
                    /\ tr[i].k = "write" /\ tr[i].n = c
                    /\ \A j \in 1..(i - 1) :
                         ~(tr[j].k = "write" /\ tr[j].n = c)
         IN tr[i].a
    ELSE "none"

\* Remembers, per stream, what was written on it first.
HistApi ==
  [hist EXCEPT !.head = [c \in Transports |->
                           IF @[c] = "none" THEN FirstWrite(trace', c)
                                            ELSE @[c]]]

NextApi == ApiStep /\ hist' = HistApi

SpecApi == Init /\ [][NextApi]_vars

AppStates == {NoState} \cup {LocalState(v, << >>) : v \in Presence}

\* One session that opens without failure; datagrams arrive in any order,
\* the periodic task runs, the application changes or clears its presence.
DatagramStep ==
  \/ nextTransport = 1 /\ ProviderConnect
  \/ \E c \in Transports : ConnectReadyOk(c)
  \/ \E c \in Transports : ConnectStreamOk(c)
  \/ \E c \in Transports : ConnectMarkerOk(c)
  \/ \E t \in Transports, data \in Datagrams : DatagramIn(t, data)
  \/ \E m \in Transports : Tick(m)
  \/ \E st \in AppStates : AppSetLocalState(st)

NextDatagram == DatagramStep /\ hist' = HistDatagram

SpecDatagram == Init /\ [][NextDatagram]_vars

NextOrder == DatagramStep /\ hist' = HistOrder

SpecOrder == Init /\ [][NextOrder]_vars

\* The presence side over disconnect/reconnect cycles.
AwarenessStep ==
  \/ Idle /\ transport = 0 /\ nextTransport <= MaxConnects /\ ProviderConnect
  \/ ProviderDisconnect
  \/ \E c \in Transports : ConnectReadyOk(c)
  \/ \E c \in Transports : ConnectStreamOk(c)
  \/ \E c \in Transports : ConnectMarkerOk(c)
  \/ \E m \in Transports : Tick(m)
  \/ \E st \in AppStates : AppSetLocalState(st)

NextAwareness == AwarenessStep /\ hist' = HistAwareness

SpecAwareness == Init /\ [][NextAwareness]_vars

\* The framing codec alone, on every stream of frames drawn at the start.
\* The step accepts a datagram of remote client c: it passes the clock
\* filter of the current manager.
Accepts(c) ==
  \E d \in Datagrams :
    /\ Handled(d) /\ d.clientId = c /\ awarenessManager # 0
    /\ d.clock > lastClock(Cur, awarenessManager, c)

\* What the eviction property remembers: when the last accepted datagram
\* of each remote client arrived.
HistStale ==
  [hist EXCEPT !.lastSeen = [c \in RemoteClients |->
                               IF Accepts(c) THEN now ELSE @[c]]]

StaleDatagrams ==
  {Datagram(c, k, TRUE, "p") : c \in RemoteClients, k \in 1..MaxClock}

StreamStates == {<<c>> : c \in RemoteClients}

\* One session; presence arrives in datagrams and on the stream, time
\* passes, the application runs the stale eviction.
StaleStep ==
  \/ nextTransport = 1 /\ ProviderConnect
  \/ \E c \in Transports : ConnectReadyOk(c)
  \/ \E c \in Transports : ConnectStreamOk(c)
  \/ \E c \in Transports : ConnectMarkerOk(c)
  \/ \E t \in Transports, data \in StaleDatagrams : DatagramIn(t, data)
  \/ \E c \in Transports, clients \in StreamStates :
       ReadChunk(c, "awareness", clients)
  \/ TimePasses
  \/ \E maxAge \in StaleAges : CleanupStale(maxAge)

NextStale == StaleStep /\ hist' = HistStale

SpecStale == Init /\ [][NextStale]_vars

InitCodec ==
  /\ InitProgram
  /\ relay = RelayIdle
  /\ \E ps \in CodecInputs : codec = [CodecIdle EXCEPT !.stage = "input",
                                                        !.payloads = ps]

NextCodec ==
  \/ CodecEncode
  \/ \E k \in Cuts(Len(codec.stream)) : CodecFirst(k)
  \/ CodecSecond
  \/ \E k \in Cuts(Len(codec.stream)) :
       k > codec.pos /\ ReaderChunk(k - codec.pos)
  \/ CodecSendUpdate
  \/ CodecReceiveUpdate

SpecCodec == InitCodec /\ [][NextCodec]_vars

\* Two unsynced providers in one room; the transports never fail.
InitRelay ==
  /\ InitProgram /\ codec = CodecIdle
  /\ \E a \in PeerDocs, b \in PeerDocs :
       relay = [RelayIdle EXCEPT !.peer["A"] = NewPeer(a),
                                 !.peer["B"] = NewPeer(b)]

NextRelay ==
  \/ \E p \in Peers : RelayConnect(p)
  \/ \E p \in Peers : RelayDeliver(p)

SpecRelay == InitRelay /\ [][NextRelay]_vars /\ WF_vars(NextRelay)

\* ---------------------------------------------------------------- claims
UserCalls == {"connect", "disconnect", "destroy", "localUpdate"}

Callbacks == {"onStatusChange", "onSyncMessage", "onError", "onClose"}

CallsBack(tr) == \E i \in 1..Len(tr) : tr[i].k \in Callbacks

Sends(tr) == Has(tr, "write") \/ Has(tr, "drop")

Active == {t \in Transports : ready[t] # "none" /\ closedFut[t] = "pending"}

\* C1: after disconnect() on a manager that is not destroyed, no reconnect
\* timer is armed and no transport is opened until connect() is called
\* again, whatever completes in between.
C1_DisconnectStaysDown ==
  hist.afterDisconnect =>
    (timers = {} /\ ~Has(trace, "setTimeout") /\ ~Has(trace, "open"))

\* C2: once destroy() was called in 'reconnecting' and has returned, no
\* transport is opened and no callback of the manager is invoked.
C2_DestroyWhileReconnectingIsFinal ==
  (hist.destroyedReconnecting /\ act \notin UserCalls) =>
    (~Has(trace, "open") /\ ~CallsBack(trace))

\* C3: after the loss of an established connection, no 'connecting' or
\* 'connected' status is reported before the provider has observed
\* 'disconnected' and its synced flag is false.
C3_LossReportsDisconnected ==
  [][hist.lossOwed => ~HasStatus(trace', {"connecting", "connected"})]_vars

\* C4: at most one transport is active (created and not yet closed).
C4_OneActiveTransport == Cardinality(Active) <= 1

\* C5: once the manager gave up (a failure with attempts >= maxAttempts),
\* the last reported status is 'disconnected', the provider is not
\* connected, no timer is pending and nothing is opened.
C5_GiveUpIsDisconnected ==
  hist.gaveUp =>
    /\ status = "disconnected" /\ ~p_connected
    /\ timers = {} /\ ~Has(trace, "open")

\* C6: with maxAttempts = N and an open that always fails, one connect()
\* leads to exactly N+1 opens, after which nothing is pending for ever.
C6_ExactlyNPlusOneOpens ==
  <>[](Idle /\ nextTransport - 1 = maxReconnectAttempts + 1)

C6_Witness ==
  /\ Idle /\ Has(trace, "giveUp")
  /\ maxReconnectAttempts >= 1
  /\ nextTransport - 1 = maxReconnectAttempts + 1

\* C7: whenever 'connected' is reported, the attempts counter is 0.
C7_ConnectedResetsAttempts ==
  HasStatus(trace, {"connected"}) => reconnectAttempts = 0

C7_Witness ==
  /\ HasStatus(trace, {"connected"})
  /\ hist.attemptsBefore > 0
  /\ reconnectAttempts = 0

\* C8: after the server closed an established, synced connection with code
\* c, the next 'connected' report comes after connection-close(c) and
\* synced(false) were emitted and goes with a new sync-step-1, and the
\* sync-step-2 that follows makes the provider emit synced(true).
C8_ServerCloseResyncs ==
  [][/\ (hist.srvClose = "closed" /\ Reopened)
          => /\ hist.srvSeen = {"connection-close", "synced"}
             /\ HasWrite(trace', "step1")
     /\ (hist.srvClose = "reconnected" /\ CurrentReaderGets("step2"))
          => HasEmit(trace', "synced", 1)]_vars

\* C9: dispatching a received sync-step-2 or update frame sends nothing.
C9_NoEcho ==
  (\E i \in 1..Len(trace) :
     trace[i].k = "onSyncMessage" /\ trace[i].a \in {"step2", "update"})
    => ~Sends(trace)

C9_Witness ==
  /\ act = "readChunk" /\ hist.docChanged
  /\ Has(trace, "onSyncMessage")
  /\ p_connected /\ syncWriter # 0
  /\ ~Sends(trace)

HasThrow(tr, name) ==
  \E i \in 1..Len(tr) : tr[i].k = "throw" /\ tr[i].a = name

CalledWith(tr, name, lens) ==
  \E i \in 1..Len(tr) :
    tr[i].k = "call" /\ tr[i].a = name /\ tr[i].n \in lens

\* C11: sendSyncMessage on an open stream with more than 65,535 bytes
\* raises FrameTooLarge, writes nothing, and leaves writer and status as
\* they were.
C11_OversizeSendRefused ==
  [][(/\ act' = "sendSync" /\ syncWriter # 0
      /\ CalledWith(trace', "sendSyncMessage", {MAX_FRAME + 1}))
       => /\ HasThrow(trace', "FrameTooLarge")
          /\ ~Has(trace', "write")
          /\ syncWriter' = syncWriter /\ status' = status]_vars

ManagerCalls == {"connect", "disconnect", "sendSync", "sendDatagram"}

\* C12: on a destroyed manager every entry point raises Destroyed, calls
\* nothing back and does no I/O.
C12_DestroyedRefusesAll ==
  [][(destroyed /\ act' \in ManagerCalls)
       => /\ HasThrow(trace', "Destroyed")
          /\ ~CallsBack(trace')
          /\ ~Has(trace', "write") /\ ~Has(trace', "datagram")
          /\ ~Has(trace', "open")]_vars

CurrentClock(c) == lastClock(Cur, awarenessManager, c)

Mirror == awareness.localState.remote

\* C13: when the datagrams handled so far come from one remote client, are
\* well formed and only one of them carries the largest clock, the clock
\* recorded for that client is that clock and the mirror holds the state
\* that datagram carried, whatever the order of arrival.
C13_LatestDatagramWins ==
  \A c \in RemoteClients :
    (/\ hist.top[c][1] > 0 /\ ~hist.garbled /\ ~hist.clash
     /\ \A o \in RemoteClients \ {c} : hist.top[o][1] = 0)
      => /\ CurrentClock(c) = hist.top[c][1]
         /\ c \in DOMAIN Mirror
         /\ Mirror[c].state = hist.top[c][2]
         /\ Mirror[c].clock = hist.top[c][1]

\* C14: handling a datagram whose clock is not above the clock recorded
\* for its client changes no manager, no awareness state, and emits no
\* change event.
C14_OldDatagramIgnored ==
  [][HandlesOld
       => /\ managers' = managers /\ awareness' = awareness
          /\ ~Has(trace', "change") /\ ~Has(trace', "datagram")]_vars

C14_Witness ==
  /\ hist.stale /\ act = "datagram"
  /\ awareness.localState.present
  /\ \E c \in RemoteClients : c \in DOMAIN Mirror

\* C15: handling a datagram that carries the local client id changes no
\* manager (no clock is recorded), no awareness state, and emits no change
\* event, whatever its clock.
C15_OwnDatagramIgnored ==
  [][HandlesOwn
       => /\ managers' = managers /\ awareness' = awareness
          /\ ~Has(trace', "change") /\ ~Has(trace', "datagram")]_vars

C15_Witness ==
  /\ hist.self /\ act = "datagram"
  /\ awarenessManager # 0 /\ awareness.localState.present

\* C16: every datagram the provider sends carries a clock above the clock
\* of every datagram it sent before, in earlier steps and in the same step.
C16_SentClocksIncrease ==
  /\ \A k \in SentClocks(trace) : k > hist.sentMax
  /\ \A i, j \in 1..Len(trace) :
       (i < j /\ trace[i].k = "datagram" /\ trace[j].k = "datagram")
         => trace[i].p.clock < trace[j].p.clock

Emits(tr, name, n) ==
  Cardinality({i \in 1..Len(tr) :
                 tr[i].k = "emit" /\ tr[i].a = name /\ tr[i].n = n})

\* C17: synced(true) and sync(true) are emitted exactly once by a step that
\* takes the synced flag from false to true, synced(false) exactly once by
\* a step that takes it from true to false, and neither by a step that
\* leaves the flag as it was.
C17_SyncedOnlyOnEdges ==
  [][/\ Emits(trace', "synced", 1) = (IF ~p_synced /\ p_synced' THEN 1 ELSE 0)
     /\ Emits(trace', "sync", 1) = (IF ~p_synced /\ p_synced' THEN 1 ELSE 0)
     /\ Emits(trace', "synced", 0) = (IF p_synced /\ ~p_synced' THEN 1 ELSE 0)
    ]_vars

IsPrefix(a, b) == Len(a) <= Len(b) /\ a = SubSeq(b, 1, Len(a))

\* C18: for one payload p of at most 65,535 bytes, decoding the whole of
\* frameMessage(p) gives the one message p and an empty tail.
C18_FrameRoundTrip ==
  (/\ codec.stage = "first" /\ Len(codec.payloads) = 1
   /\ codec.cut = Len(codec.stream))
    => codec.first = << <<codec.payloads[1]>>, << >> >>

C18_Witness ==
  /\ codec.stage = "first" /\ Len(codec.payloads) = 1
  /\ codec.cut = Len(codec.stream)
  /\ Len(codec.payloads[1]) = MAX_FRAME
  /\ codec.first[1] = <<codec.payloads[1]>>

\* C19: for every split (a, b) of a stream of frames, decoding a gives a
\* prefix of the payloads and a tail t, and decoding t ++ b gives exactly
\* the remaining payloads and an empty tail.
C19_SplitDecoding ==
  /\ codec.stage \in {"first", "done"}
       => IsPrefix(codec.first[1], codec.payloads)
  /\ codec.stage = "done"
       => /\ codec.first[1] \o codec.second[1] = codec.payloads
          /\ codec.second[2] = << >>

C19_Witness ==
  /\ codec.stage = "done" /\ Len(codec.payloads) = 2
  /\ Len(codec.first[1]) = 1 /\ Len(codec.first[2]) = 1
  /\ codec.first[1] \o codec.second[1] = codec.payloads

\* C20: once the provider is destroyed, a document update reaches no
\* handler of the provider.
C20_DestroyUnsubscribes ==
  (p_destroyed /\ act \in {"localUpdate", "readChunk"})
    => ~Has(trace, "docUpdate")

\* The marker write of the stream the manager holds has completed.
MarkerWritten == syncStream # 0 /\ pc[syncStream] = "end"

\* C21: while the last reported status is 'connected' the manager holds a
\* transport that is ready, a stream with its writer, and the marker of
\* that stream has been written.
C21_ConnectedMeansOpen ==
  status = "connected"
    => /\ transport # 0 /\ ready[transport] = "ok"
       /\ syncStream # 0 /\ syncWriter # 0
       /\ MarkerWritten

\* C22: a reconnect timer is pending only while the last reported status
\* is 'disconnected' or 'reconnecting' and the manager is not destroyed.
C22_TimerOnlyWhileDown ==
  timers # {} => (status \in {"disconnected", "reconnecting"} /\ ~destroyed)

\* C23: on every stream the manager opens, the first thing written is the
\* stream-type marker, so it precedes every frame, also when
\* sendSyncMessage is called while the marker write is still awaited.
C23_MarkerFirst ==
  /\ \A c \in Transports : hist.head[c] \in {"none", "marker"}
  /\ \A i \in 1..Len(trace) :
       (trace[i].k = "write" /\ trace[i].a = "marker")
         => trace[i].p = <<STREAM_SYNC>>

C23_Witness ==
  /\ act = "sendSync" /\ syncWriter # 0 /\ pc[syncWriter] = "marker"
  /\ Has(trace, "write")
  /\ hist.head[syncWriter] = "marker"

\* sendSyncMessage was called with a frame of this kind in the step.
Sent(tr, tag) ==
  \E i \in 1..Len(tr) : tr[i].k \in {"write", "drop"} /\ tr[i].a = tag

GotStep1(tr) ==
  \E i \in 1..Len(tr) : tr[i].k = "onSyncMessage" /\ tr[i].a = "step1"

C25_Step2OnlyIfDiff ==
  \A i \in 1..Len(trace) :
    (trace[i].k = "onSyncMessage" /\ trace[i].a = "step1"
       /\ doc \ trace[i].p = {})
      => ~Sent(trace, "step2")

\* C26: the message sent for a local update is the tag 0x02 followed by
\* exactly the update bytes, and the peer applies exactly those bytes.
C26_UpdateRoundTrip ==
  codec.stage = "applied"
    => /\ codec.message = <<MSG_UPDATE>> \o codec.payloads[1]
       /\ codec.applied = [applies |-> TRUE, bytes |-> codec.payloads[1]]

\* C27: however a stream of frames is divided into chunks, the stream
\* reader delivers the bodies readFramedMessages finds in the whole
\* stream: a prefix of them at any time, all of them at the end.
C27_ReaderMatchesDecoder ==
  codec.stage = "reading"
    => /\ IsPrefix(codec.delivered, readFramedMessages(codec.stream)[1])
       /\ codec.pos = Len(codec.stream)
            => /\ codec.delivered = readFramedMessages(codec.stream)[1]
               /\ codec.buffer = readFramedMessages(codec.stream)[2]

C27_Witness ==
  /\ codec.stage = "reading" /\ codec.pos = Len(codec.stream)
  /\ codec.stream = <<0, 2, 1, 2, 0, 1, 0>>
  /\ codec.delivered = << <<1, 2>>, <<0>> >>

\* The step is a transport failure: an await of connect() rejected, or the
\* read of the stream failed.
FailureSteps == {"readyFail", "streamFail", "markerFail", "readFail"}

\* C28: every transport failure seen by a manager that is not destroyed
\* releases writer and reader, clears the transport, calls the error
\* callback, and arms a reconnect timer whenever the attempts made so far
\* are fewer than maxReconnectAttempts.
C28_FailureCleansUpAndRetries ==
  (act \in FailureSteps /\ ~destroyed)
    => /\ syncWriter = 0 /\ syncReader = 0 /\ syncStream = 0
       /\ transport = 0
       /\ Has(trace, "onError")
       /\ hist.attemptsBefore < maxReconnectAttempts
            => (Has(trace, "setTimeout") /\ reconnectTimeout \in timers)

C28_Witness ==
  /\ act = "readFail" /\ ~destroyed
  /\ hist.attemptsBefore < maxReconnectAttempts
  /\ transport = 0 /\ syncWriter = 0
  /\ Has(trace, "onError") /\ Has(trace, "setTimeout")

InTable(c) ==
  /\ awarenessManager # 0
  /\ c \in DOMAIN managers[awarenessManager].remoteClocks

InMirror(c) == c \in DOMAIN Mirror /\ Mirror[c] # NullEntry

\* C29: a run of the stale eviction with threshold T removes from the
\* clock table and from the mirror the clients whose last accepted
\* datagram is older than T, and leaves the others as they were.
C29_EvictsExactlyTheStale ==
  [][\A T \in StaleAges :
       (/\ act' = "cleanupStale"
        /\ trace'[1] = Ev("call", "cleanupStaleStates", T, {}))
         => \A c \in RemoteClients :
              InTable(c)
                => IF now - hist.lastSeen[c] > T
                     THEN ~InTable(c)' /\ ~InMirror(c)'
                     ELSE /\ InTable(c)'
                          /\ InMirror(c) => (/\ InMirror(c)'
                                             /\ Mirror'[c] = Mirror[c])
    ]_vars

\* The awareness change events of a step.
Changes(tr) == {i \in 1..Len(tr) : tr[i].k = "change"}

\* C30: accepting a datagram of remote client c sets the mirror entry of c
\* to the decoded state, emits exactly one change event, which names c as
\* updated with origin 'remote-datagram', and leaves the local client's
\* own presence as it was.
C30_AcceptUpdatesMirrorOnly ==
  [][\A c \in RemoteClients :
       (Accepts(c) /\ trace'[1].p.ok)
         => /\ InMirror(c)' /\ Mirror'[c].state = trace'[1].p.state
            /\ Cardinality(Changes(trace')) = 1
            /\ \A i \in Changes(trace') :
                 trace'[i] = Ev("change", "remote-datagram", 0, {c})
            /\ awareness'.localState.present = awareness.localState.present
            /\ awareness'.localState.user = awareness.localState.user
    ]_vars

\* C31: at most one reconnect timer is pending and reconnectTimeout is its
\* handle, so a disconnect() or destroy() leaves no timer pending.
C31_OneTimer ==
  /\ Cardinality(timers) <= 1
  /\ timers # {} => timers = {reconnectTimeout}
  /\ act \in {"disconnect", "destroy"} => timers = {}

\* The step is a handler or connect() continuation of an earlier transport
\* running while the manager holds another one: the closed handler of a
\* transport that is not the current one, the failure of a read loop of a
\* reader that is not the current one, or a rejected await of a connect()
\* call whose transport was replaced.
StaleHandler ==
  \/ /\ act' = "closedFire" /\ transport # 0
     /\ \E c \in Transports :
          closedH[c] # 0 /\ closedH'[c] = 0 /\ closedH[c] # transport
  \/ /\ act' = "readFail" /\ syncReader # 0
     /\ \E c \in Transports :
          pendRead[c] # 0 /\ pendRead'[c] = 0 /\ pendRead[c] # syncReader
  \/ /\ act' \in {"readyFail", "streamFail", "markerFail"} /\ transport # 0
     /\ \E c \in Transports : pc[c] # pc'[c] /\ c # transport

\* C32: a handler or continuation that belongs to an earlier transport
\* leaves the current connection alone: writer, reader, transport handle,
\* reported status and reconnect timers stay as they were.
C32_StaleHandlersHarmless ==
  [][StaleHandler
       => /\ transport' = transport
          /\ syncWriter' = syncWriter /\ syncReader' = syncReader
          /\ status' = status
          /\ timers' = timers]_vars

\* C33: reconnectAttempts stays within 0..maxReconnectAttempts, whatever
\* the interleaving of failures, closes, timer expiries and connects.
C33_AttemptsBounded ==
  0 <= reconnectAttempts /\ reconnectAttempts <= maxReconnectAttempts

C33_Witness ==
  /\ Has(trace, "giveUp")
  /\ maxReconnectAttempts >= 1
  /\ reconnectAttempts = maxReconnectAttempts

\* C34: the provider's synced flag is true only while its connected flag
\* is true and the last reported status is 'connected'.
C34_SyncedImpliesConnected ==
  p_synced => (p_connected /\ status = "connected")

\* The awareness pipelines with a periodic task or a listener in place.
ActivePipelines ==
  {m \in DOMAIN managers : managers[m].intervalId \/ managers[m].listening}

\* C35: at most one awareness pipeline has a periodic task or an
\* awareness listener, over any number of disconnect/reconnect cycles,
\* and none has after the provider is destroyed.
C35_OnePipeline ==
  /\ Cardinality(ActivePipelines) <= 1
  /\ p_destroyed => ActivePipelines = {}

\* C36: the step that handles a received datagram sends no datagram; with
\* the application leaving its presence alone, only the periodic task
\* sends datagrams.
C36_ReceiveSendsNothing ==
  act \in {"datagram", "readChunk"} => ~Has(trace, "datagram")

\* The step hands the datagram callback a malformed datagram: too short
\* for the header, or with a payload that does not decode.
HandlesMalformed ==
  /\ act' = "datagram"
  /\ trace'[1].k = "onDatagram"
  /\ trace'[1].p.short \/ ~trace'[1].p.ok

\* C37: a datagram discarded as malformed leaves the remote-clock table
\* (and every manager) as it was.
C37_MalformedLeavesClocks ==
  [][HandlesMalformed => managers' = managers]_vars

\* C38: accepting a datagram of one remote client keeps the mirrored state
\* of every other remote client.
C38_MirrorKeepsOthers ==
  [][\A c \in RemoteClients :
       Accepts(c)
         => \A o \in RemoteClients \ {c} :
              InMirror(o) => (InMirror(o)' /\ Mirror'[o] = Mirror[o])
    ]_vars

\* C39: two unsynced providers linked by an in-order relay, each sending
\* sync-step-1 when it connects, both end up synced.
C39_BothSynced ==
  <>(relay.peer["A"].synced /\ relay.peer["B"].synced)

====
